---- MODULE Spec2Model ----
(***************************************************************************)
(* Model of src/bot.js: a Telegram bot that reads a list of PDF links      *)
(* from one text message, downloads them concurrently, merges the          *)
(* documents with pdf-lib and sends the merged file back to the chat.      *)
(*                                                                         *)
(* Strings are sequences of tokens.  A token is either a single character  *)
(* or an atomic substring ("drive.google.com", "pdf", ...), so that        *)
(* split, trim and includes are computed the way the code computes them.   *)
(***************************************************************************)
EXTENDS Integers, Sequences, FiniteSets, TLC

\* ------------------------------------------------------------------ bounds
\* longest message text, in tokens
MaxTextLen == 3
\* number of pages of every downloaded document
NumPages == 2
\* longest text of the one-link messages, in tokens
MaxLinkLen == 5

\* ------------------------------------------------------------ string model
Separators == {",", "\n"}
\* "\n" is white space too, but split has removed it before trim runs
Whitespace == {" ", "\n"}
DriveHost == "drive.google.com"
Chars == {",", "\n", " ", "a", DriveHost}

RECURSIVE SeqsUpTo(_, _)
SeqsUpTo(S, n) ==
  IF n = 0 THEN {<<>>}
  ELSE LET shorter == SeqsUpTo(S, n - 1)
       IN  shorter \cup {Append(s, c) : s \in {t \in shorter : Len(t) = n - 1}, c \in S}

\* String.prototype.includes: sub occurs in s as a contiguous run
Includes(s, sub) ==
  \E i \in 0..(Len(s) - Len(sub)) : \A k \in 1..Len(sub) : s[i + k] = sub[k]

\* String.prototype.split(/[\n,]+/): the pieces between maximal runs of
\* separators, the empty pieces at either end included
RECURSIVE SplitFrom(_, _, _)
SplitFrom(s, i, cur) ==
  IF i > Len(s) THEN <<cur>>
  ELSE IF s[i] \in Separators
       THEN IF i > 1 /\ s[i - 1] \in Separators
            THEN SplitFrom(s, i + 1, cur)
            ELSE <<cur>> \o SplitFrom(s, i + 1, <<>>)
       ELSE SplitFrom(s, i + 1, Append(cur, s[i]))

Split(s) == SplitFrom(s, 1, <<>>)

\* String.prototype.trim
RECURSIVE TrimLeft(_)
TrimLeft(s) ==
  IF s # <<>> /\ Head(s) \in Whitespace THEN TrimLeft(Tail(s)) ELSE s

RECURSIVE TrimRight(_)
TrimRight(s) ==
  IF s # <<>> /\ s[Len(s)] \in Whitespace
  THEN TrimRight(SubSeq(s, 1, Len(s) - 1)) ELSE s

Trim(s) == TrimRight(TrimLeft(s))

\* Array.prototype.map(link => link.trim())
TrimAll(pieces) == [i \in 1..Len(pieces) |-> Trim(pieces[i])]

\* mutant of parseLinks: the empty fragments are kept
parseLinksKeepEmpty(t) == TrimAll(Split(t))

\* parseLinks (bot.js 29-30)
parseLinks(t) == SelectSeq(TrimAll(Split(t)), LAMBDA link : link # <<>>)

\* --------------------------------------------------------------- link model
FileD == "/file/d/"
View == "/view"
ExportPrefix == "https://drive.google.com/uc?export=download&id="

\* convertGoogleDriveLink (bot.js 32-35): /\/file\/d\/(.*)\/view/ matches from
\* the first "/file/d/" that has a "/view" after it up to the last "/view"
convertGoogleDriveLink(link) ==
  LET starts == {i \in 1..Len(link) :
                   link[i] = FileD /\ \E j \in (i + 1)..Len(link) : link[j] = View}
  IN  IF starts = {} THEN link
      ELSE LET p == CHOOSE i \in starts : \A k \in starts : i <= k
               q == CHOOSE j \in (p + 1)..Len(link) :
                      /\ link[j] = View
                      /\ \A k \in (j + 1)..Len(link) : link[k] # View
           IN  <<ExportPrefix>> \o SubSeq(link, p + 1, q - 1)

\* link.match(/id=([^&]+)/) on a download URL, rendered as the template
\* literal renders it ("null" when there is no match)
FileIdOf(url) ==
  IF Len(url) >= 2 /\ url[1] = ExportPrefix /\ url[2] # "&"
  THEN LET stops == {i \in 2..Len(url) : url[i] = "&"}
           last == IF stops = {} THEN Len(url)
                   ELSE (CHOOSE i \in stops : \A k \in stops : i <= k) - 1
       IN  SubSeq(url, 2, last)
  ELSE <<"null">>

\* downloadFile (bot.js 37-42): the strategy and the first URL requested
IsDrive(link) == Includes(link, <<DriveHost>>)
FirstUrl(link) == IF IsDrive(link) THEN convertGoogleDriveLink(link) ELSE link

\* the URL of the second request of downloadGoogleDrivePDF (bot.js 61-63)
ConfirmUrl(url, hasToken) ==
  IF hasToken THEN <<ExportPrefix>> \o FileIdOf(url) \o <<"&confirm=", "TOKEN">>
  ELSE url

\* ----------------------------------------------------------- HTTP responses
\* a header value is a token sequence; <<>> is an absent (or empty) header
ContentTypes == {<<>>, <<"application/", "pdf">>, <<"text/", "html">>}
ContentDispositions ==
  { <<>>,
    <<"attachment; filename=", "x", ".", "pdf">>,
    <<"attachment; filename=", "x", ".", "html">>,
    <<"attachment; filename=", "pdf">> }

\* the response to the request of fetch i: a transport error, or headers and
\* a body; the body of fetch i is document i
Responses(i, headers) ==
  {[err |-> TRUE, header |-> <<>>, data |-> i]} \cup
  {[err |-> FALSE, header |-> h, data |-> i] : h \in headers}

\* the first response of the Google Drive strategy: an error, or a text body
\* in which the confirm token is found or not
InitialResponses == {"error", "token", "notoken"}

NoResponse == [err |-> FALSE, header |-> <<"-">>, data |-> 0]

TransportError == "Request failed"
NotPdfError == "The link does not point to a PDF file."
DriveError == "Failed to download from Google Drive."
Reasons == {TransportError, NotPdfError, DriveError}

Throw(m) == [thrown |-> TRUE, message |-> m, value |-> 0]
Return(v) == [thrown |-> FALSE, message |-> "", value |-> v]

\* mutant of downloadDirectPDF: only an absent content type is refused
downloadDirectPDFAnyType(r) ==
  IF r.err THEN Throw(TransportError)
  ELSE IF r.header = <<>> THEN Throw(NotPdfError)
  ELSE Return(r.data)

\* downloadDirectPDF (bot.js 44-52), given the response to its GET
downloadDirectPDF(r) ==
  IF r.err THEN Throw(TransportError)
  ELSE IF r.header = <<>> \/ ~Includes(r.header, <<"pdf">>) THEN Throw(NotPdfError)
  ELSE Return(r.data)

\* downloadGoogleDrivePDF (bot.js 65-77), given the response to its second
\* GET: whatever is thrown inside the try is replaced by one message
downloadGoogleDrivePDF(r) ==
  LET isPDF == r.header # <<>> /\ Includes(r.header, <<".", "pdf">>)
      inner == IF r.err THEN Throw(TransportError)
               ELSE IF ~isPDF
                    THEN Throw("The Google Drive link does not point directly to a PDF file.")
                    ELSE Return(r.data)
  IN  IF inner.thrown THEN Throw(DriveError) ELSE inner

\* mutant of DownloadResult: the failure does not carry the link
DownloadResultNoLink(link, x) ==
  IF x.thrown THEN [status |-> "failed", link |-> <<>>, error |-> x.message]
  ELSE [status |-> "success", link |-> link, data |-> x.value]

\* the try/catch around downloadFile in downloadPDFs (bot.js 90-95)
DownloadResult(link, x) ==
  IF x.thrown THEN [status |-> "failed", link |-> link, error |-> x.message]
  ELSE [status |-> "success", link |-> link, data |-> x.value]

Pending == [status |-> "pending"]

\* mutant of PromiseAll: the values in the order the promises settled
PromiseAllInSettleOrder(slots, order) == [k \in 1..Len(order) |-> slots[order[k]]]

\* Promise.all (bot.js 89, 98): the values by position, whatever the order in
\* which the promises settled
PromiseAll(slots, order) == [i \in 1..Len(slots) |-> slots[i]]

\* ------------------------------------------------------------ message texts
Texts == SeqsUpTo(Chars, MaxTextLen)
\* texts of one link, made of the host, the two path markers of the view
\* form, a path segment and blanks
LinkChars == {DriveHost, FileD, View, "ID", " "}
LinkTexts == SeqsUpTo(LinkChars, MaxLinkLen)
\* chat types of the updates the library emits as 'message'
ChatTypes == {"private", "group", "supergroup"}

PromptText == "Please provide valid PDF links separated by commas or new lines."
DownloadingText == "Downloading PDFs..."
NoValidText == "No valid PDFs were downloaded."
ErrorText == "An error occurred while processing the PDFs."

Text(t) == [kind |-> "text", body |-> t]
\* mutant of FailedLinksMessage: each link is listed with its error message
FailedLinksMessageWithReasons(failed) ==
  [kind |-> "failed", count |-> Len(failed),
   links |-> [i \in 1..Len(failed) |-> <<failed[i].link, failed[i].error>>]]

\* mutant of FailedLinksMessage: the links are listed last first
FailedLinksMessageReversed(failed) ==
  [kind |-> "failed", count |-> Len(failed),
   links |-> [i \in 1..Len(failed) |-> failed[Len(failed) + 1 - i].link]]

\* the failed-links message (bot.js 120-121)
FailedLinksMessage(failed) ==
  [kind |-> "failed", count |-> Len(failed),
   links |-> [i \in 1..Len(failed) |-> failed[i].link]]
\* mutant of SummaryMessage: the two counts change places
SummaryMessageSwapped(successCount, failureCount) ==
  [kind |-> "summary", merged |-> failureCount, failed |-> successCount]

\* the summary message (bot.js 143-145)
SummaryMessage(successCount, failureCount) ==
  [kind |-> "summary", merged |-> successCount, failed |-> failureCount]
\* bot.sendDocument of the file at the fixed path (bot.js 157)
Document(content) == [kind |-> "document", filename |-> "merged.pdf", pages |-> content]

\* the pages of document d, in its own order
PagesOf(d) == [p \in 1..NumPages |-> <<d, p>>]
NoFile == <<"no file">>

\* the merged document of the second message
OtherPdf == [p \in 1..NumPages |-> <<0, p>>]

\* what the transport finds when it opens the path given to sendDocument:
\* nothing yet, the content of the file, or no file
NotRead == [state |-> "none", content |-> <<>>]
ReadFile(f) ==
  IF f = NoFile THEN [state |-> "missing", content |-> <<>>]
  ELSE [state |-> "read", content |-> f]

\* -------------------------------------------------------------------- state
VARIABLES
  msg,             \* the incoming message: chat type and text (<<>>: no text)
  pc,              \* where handleMessage / handlePDFLinks stands
  links,           \* const links of handleMessage
  fetches,         \* per link: where its downloadFile stands, what it has
                   \* requested and the response it judged
  results,         \* per link: the value its promise in downloadPDFs settled to
  settleOrder,     \* the links' positions in the order their fetches settled
  downloadResults, \* const downloadResults of handlePDFLinks
  chat,            \* the calls made to bot.sendMessage / bot.sendDocument
  pdfBuffers,      \* the argument of mergePDFs
  tasks,           \* per buffer: where its merge task stands
  mergedPdf,       \* the pages of the destination document of mergePDFs
  mergeCalls,      \* number of calls of mergePDFs
  file,            \* the content of <dir>/merged.pdf, or NoFile
  log,             \* what console.error has printed for this batch
  uploaded,        \* what the transport has read at the path given to
                   \* sendDocument for this batch
  other            \* sendPDFDocument of a second message handled at the same
                   \* time: where it stands, what the transport read for it

vars == <<msg, pc, links, fetches, results, settleOrder, downloadResults, chat,
          pdfBuffers, tasks, mergedPdf, mergeCalls, file, log, uploaded, other>>

fetchVars == <<fetches, results, settleOrder>>
mergeVars == <<pdfBuffers, tasks, mergedPdf, mergeCalls>>

\* nothing of the message has been handled yet
Fresh ==
  /\ pc = "idle"
  /\ links = <<>>
  /\ fetches = <<>>
  /\ results = <<>>
  /\ settleOrder = <<>>
  /\ downloadResults = <<>>
  /\ chat = <<>>
  /\ pdfBuffers = <<>>
  /\ tasks = <<>>
  /\ mergedPdf = <<>>
  /\ mergeCalls = 0
  /\ file = NoFile
  /\ log = <<>>
  /\ uploaded = NotRead

Init ==
  /\ msg \in [chatType : ChatTypes, text : Texts]
  /\ Fresh
  /\ other = [pc |-> "absent", upload |-> NotRead]

\* const successfulDownloads / failedDownloads (bot.js 116-117)
successfulDownloads == SelectSeq(downloadResults, LAMBDA r : r.status = "success")
failedDownloads == SelectSeq(downloadResults, LAMBDA r : r.status = "failed")

\* await sendMessage(chatId, t) (bot.js 150): the call is made; when the
\* transport rejects, the rejection leaves handleMessage, which nothing catches
SendMessage(m, next) ==
  /\ chat' = Append(chat, m)
  /\ \/ pc' = next
     \/ pc' = "rejected"

\* -------------------------------------------------- handleMessage (12-27)
\* the guard of line 16 and parseLinks
HandleMessage ==
  /\ pc = "idle"
  /\ IF msg.text # <<>> /\ msg.chatType \in {"private", "group", "supergroup"}
     THEN /\ links' = parseLinks(msg.text)
          /\ pc' = IF Len(links') = 0 THEN "prompt" ELSE "downloading"
     ELSE /\ links' = links
          /\ pc' = "done"
  /\ UNCHANGED <<msg, other, uploaded, fetchVars, downloadResults, chat, mergeVars, file, log>>

\* line 20-21
SendPrompt ==
  /\ pc = "prompt"
  /\ SendMessage(Text(PromptText), "done")
  /\ UNCHANGED <<msg, other, uploaded, links, fetchVars, downloadResults, mergeVars, file, log>>

\* the fetch of link i as downloadFile leaves it at its first await
StartFetch(link) ==
  [pc |-> IF IsDrive(link) THEN "initial" ELSE "direct",
   requested |-> <<FirstUrl(link)>>,
   response |-> NoResponse]

\* line 24-25, up to the await of Promise.all in downloadPDFs (89): every
\* mapped function has run to its first axios.get
SendDownloading ==
  /\ pc = "downloading"
  /\ chat' = Append(chat, Text(DownloadingText))
  /\ \/ /\ pc' = "fetching"
        /\ fetches' = [i \in 1..Len(links) |-> StartFetch(links[i])]
        /\ results' = [i \in 1..Len(links) |-> Pending]
     \/ /\ pc' = "rejected"
        /\ UNCHANGED <<fetches, results>>
  /\ UNCHANGED <<msg, other, uploaded, links, settleOrder, downloadResults, mergeVars, file, log>>

\* mutant of Settle: a fetch that failed is requested once more
SettleOrRetry(i, r, x) ==
  IF x.thrown /\ Len(fetches[i].requested) < 3
  THEN /\ fetches' = [fetches EXCEPT ![i].requested = Append(@, @[1])]
       /\ UNCHANGED <<results, settleOrder>>
  ELSE /\ fetches' = [fetches EXCEPT ![i].pc = "settled", ![i].response = r]
       /\ results' = [results EXCEPT ![i] = DownloadResult(links[i], x)]
       /\ settleOrder' = Append(settleOrder, i)

\* the promise of link i settles to the value of its try/catch
Settle(i, r, x) ==
  /\ fetches' = [fetches EXCEPT ![i].pc = "settled", ![i].response = r]
  /\ results' = [results EXCEPT ![i] = DownloadResult(links[i], x)]
  /\ settleOrder' = Append(settleOrder, i)

\* downloadDirectPDF: the GET of link i is answered
DirectResponse(i) ==
  /\ pc = "fetching"
  /\ fetches[i].pc = "direct"
  /\ \E r \in Responses(i, ContentTypes) : Settle(i, r, downloadDirectPDF(r))
  /\ UNCHANGED <<msg, other, uploaded, pc, links, downloadResults, chat, mergeVars, file, log>>

\* downloadGoogleDrivePDF: the first GET of link i is answered; on an error
\* the catch throws, otherwise the second GET is issued (56-65)
DriveInitialResponse(i) ==
  /\ pc = "fetching"
  /\ fetches[i].pc = "initial"
  /\ \E r \in InitialResponses :
       IF r = "error"
       THEN Settle(i, [err |-> TRUE, header |-> <<>>, data |-> i], Throw(DriveError))
       ELSE /\ fetches' = [fetches EXCEPT
                 ![i].pc = "final",
                 ![i].requested =
                    Append(@, ConfirmUrl(fetches[i].requested[1], r = "token"))]
            /\ UNCHANGED <<results, settleOrder>>
  /\ UNCHANGED <<msg, other, uploaded, pc, links, downloadResults, chat, mergeVars, file, log>>

\* downloadGoogleDrivePDF: the second GET of link i is answered (65-77)
DriveFinalResponse(i) ==
  /\ pc = "fetching"
  /\ fetches[i].pc = "final"
  /\ \E r \in Responses(i, ContentDispositions) :
       Settle(i, r, downloadGoogleDrivePDF(r))
  /\ UNCHANGED <<msg, other, uploaded, pc, links, downloadResults, chat, mergeVars, file, log>>

\* ------------------------------------------------- handlePDFLinks (113-140)
\* mutant of AfterListing: the merge is entered without a successful download
AfterListingAlwaysMerge(successes) == "merge"

\* lines 125-130: where handlePDFLinks goes once the failed links are reported
AfterListing(successes) == IF Len(successes) = 0 THEN "novalid" ELSE "merge"

\* mutant of PromiseAllReady: the first promise to settle ends the wait
PromiseRaceReady(slots) == \E i \in 1..Len(slots) : slots[i] # Pending

\* Promise.all (bot.js 89): the await ends when every promise has settled
PromiseAllReady(slots) == \A i \in 1..Len(slots) : slots[i] # Pending

\* line 114-119: Promise.all resolves once every fetch has settled
Join ==
  /\ pc = "fetching"
  /\ PromiseAllReady(results)
  /\ downloadResults' = PromiseAll(results, settleOrder)
  /\ pc' = IF Len(SelectSeq(downloadResults', LAMBDA r : r.status = "failed")) > 0
           THEN "listing"
           ELSE AfterListing(SelectSeq(downloadResults', LAMBDA r : r.status = "success"))
  /\ UNCHANGED <<msg, other, uploaded, links, fetchVars, chat, mergeVars, file, log>>

\* line 120-122
SendFailedLinks ==
  /\ pc = "listing"
  /\ SendMessage(FailedLinksMessage(failedDownloads), AfterListing(successfulDownloads))
  /\ UNCHANGED <<msg, other, uploaded, links, fetchVars, downloadResults, mergeVars, file, log>>

\* line 126-127
SendNoValid ==
  /\ pc = "novalid"
  /\ SendMessage(Text(NoValidText), "done")
  /\ UNCHANGED <<msg, other, uploaded, links, fetchVars, downloadResults, mergeVars, file, log>>

\* mutant of BuffersOf: the buffers are collected last first
BuffersReversed(successes) ==
  [k \in 1..Len(successes) |-> successes[Len(successes) + 1 - k].data]

\* line 131: successfulDownloads.map(result => result.data)
BuffersOf(successes) == [k \in 1..Len(successes) |-> successes[k].data]

\* ------------------------------------------------------ mergePDFs (101-111)
\* line 102-109: the destination is created and every merge task is started;
\* each task runs to its await of PDFDocument.load
CallMerge ==
  /\ pc = "merge"
  /\ pdfBuffers' = BuffersOf(successfulDownloads)
  /\ tasks' = [k \in 1..Len(pdfBuffers') |-> "load"]
  /\ mergedPdf' = <<>>
  /\ mergeCalls' = mergeCalls + 1
  /\ pc' = "merging"
  /\ UNCHANGED <<msg, other, uploaded, links, fetchVars, downloadResults, chat, file, log>>

\* line 104: PDFDocument.load of buffer k resolves, or rejects (the bytes are
\* not a document pdf-lib can parse); the task then awaits copyPages
LoadSettles(k) ==
  /\ tasks[k] = "load"
  /\ \/ tasks' = [tasks EXCEPT ![k] = "copy"]
     \/ tasks' = [tasks EXCEPT ![k] = "failed"]
  /\ UNCHANGED <<msg, other, uploaded, pc, links, fetchVars, downloadResults, chat, pdfBuffers,
                 mergedPdf, mergeCalls, file, log>>

\* line 105-106: copyPages of buffer k resolves and the task appends the
\* copied pages, in their own order, to the destination; or copyPages rejects
CopySettles(k) ==
  /\ tasks[k] = "copy"
  /\ \/ /\ tasks' = [tasks EXCEPT ![k] = "added"]
        /\ mergedPdf' = mergedPdf \o PagesOf(pdfBuffers[k])
     \/ /\ tasks' = [tasks EXCEPT ![k] = "failed"]
        /\ mergedPdf' = mergedPdf
  /\ UNCHANGED <<msg, other, uploaded, pc, links, fetchVars, downloadResults, chat, pdfBuffers,
                 mergeCalls, file, log>>

\* mutant of MergeTasksAll: Promise.allSettled in place of Promise.all
MergeTasksAllSettled(ts) ==
  IF \A k \in 1..Len(ts) : ts[k] \in {"added", "failed"} THEN "resolved" ELSE "pending"

\* line 109: Promise.all(mergeTasks) rejects with the first task that rejects
\* and resolves once every task has resolved
MergeTasksAll(ts) ==
  IF \E k \in 1..Len(ts) : ts[k] = "failed" THEN "rejected"
  ELSE IF \A k \in 1..Len(ts) : ts[k] = "added" THEN "resolved"
  ELSE "pending"

\* line 110, 132: the merge resolves with the saved destination document
MergeResolves ==
  /\ pc = "merging"
  /\ MergeTasksAll(tasks) = "resolved"
  /\ pc' = "deliver"
  /\ UNCHANGED <<msg, other, uploaded, links, fetchVars, downloadResults, chat, mergeVars, file, log>>

\* line 134-135: the merge rejects and the catch logs the error; the tasks
\* that have not settled keep running
MergeRejects ==
  /\ pc = "merging"
  /\ MergeTasksAll(tasks) = "rejected"
  /\ log' = Append(log, "Error merging PDFs:")
  /\ pc' = "notice"
  /\ UNCHANGED <<msg, other, uploaded, links, fetchVars, downloadResults, chat, mergeVars, file>>

\* ------------------------------------------------ sendPDFDocument (152-162)
\* line 153-157: the file is written and bot.sendDocument is called with its
\* path; when writeFileSync throws, the catch of handlePDFLinks logs it
WriteAndSend ==
  /\ pc = "deliver"
  /\ \/ /\ file' = mergedPdf
        /\ chat' = Append(chat, Document(file'))
        /\ pc' = "delivering"
        /\ log' = log
     \/ /\ log' = Append(log, "Error merging PDFs:")
        /\ pc' = "notice"
        /\ UNCHANGED <<file, chat>>
  /\ UNCHANGED <<msg, other, uploaded, links, fetchVars, downloadResults, mergeVars>>

\* mutant of AfterTry: handlePDFLinks returns after the error notice
AfterTryReturnOnError(branch) == IF branch = "error" THEN "done" ELSE "summary"

\* line 139: whatever the try/catch of lines 130-137 did, the summary follows
AfterTry(branch) == "summary"

\* line 157: the transport opens the file at the path and reads it, some time
\* after the call; it finds what is at the path at that time
TransportReads ==
  /\ pc = "delivering"
  /\ uploaded.state = "none"
  /\ uploaded' = ReadFile(file)
  /\ UNCHANGED <<msg, other, pc, links, fetchVars, downloadResults, chat, mergeVars,
                 file, log>>

\* line 157-161: sendDocument resolves, having read the file, and unlinkSync
\* deletes the file (it throws into the catch when there is none); or
\* sendDocument rejects; the catch logs the error
SendDocumentSettles ==
  /\ pc = "delivering"
  /\ uploaded.state # "none"
  /\ \/ /\ uploaded.state = "read"
        /\ file # NoFile
        /\ file' = NoFile
        /\ log' = log
        /\ pc' = AfterTry("sent")
     \/ /\ uploaded.state = "read"
        /\ file = NoFile
        /\ log' = Append(log, "Error sending PDF document:")
        /\ file' = file
        /\ pc' = AfterTry("sent")
     \/ /\ log' = Append(log, "Error sending PDF document:")
        /\ file' = file
        /\ pc' = AfterTry("unsent")
  /\ UNCHANGED <<msg, other, uploaded, links, fetchVars, downloadResults, chat, mergeVars>>

\* line 136
SendNotice ==
  /\ pc = "notice"
  /\ SendMessage(Text(ErrorText), AfterTry("error"))
  /\ UNCHANGED <<msg, other, uploaded, links, fetchVars, downloadResults, mergeVars, file, log>>

\* line 139, sendSummaryMessage (142-148)
SendSummary ==
  /\ pc = "summary"
  /\ SendMessage(SummaryMessage(Len(successfulDownloads), Len(failedDownloads)), "done")
  /\ UNCHANGED <<msg, other, uploaded, links, fetchVars, downloadResults, mergeVars, file, log>>

\* ------------------------------------------------------------ specification
Next ==
  \/ HandleMessage
  \/ SendPrompt
  \/ SendDownloading
  \/ \E i \in 1..Len(fetches) : DirectResponse(i)
  \/ \E i \in 1..Len(fetches) : DriveInitialResponse(i)
  \/ \E i \in 1..Len(fetches) : DriveFinalResponse(i)
  \/ Join
  \/ SendFailedLinks
  \/ SendNoValid
  \/ CallMerge
  \/ \E k \in 1..Len(tasks) : LoadSettles(k)
  \/ \E k \in 1..Len(tasks) : CopySettles(k)
  \/ MergeResolves
  \/ MergeRejects
  \/ WriteAndSend
  \/ TransportReads
  \/ SendDocumentSettles
  \/ SendNotice
  \/ SendSummary

Spec == Init /\ [][Next]_vars

\* the same handler on messages that hold one link of the Google Drive alphabet
InitLink ==
  /\ msg \in [chatType : {"private"}, text : LinkTexts]
  /\ Fresh
  /\ other = [pc |-> "absent", upload |-> NotRead]

SpecLink == InitLink /\ [][Next]_vars

\* every step that can be taken is taken in the end: each request is answered,
\* each send and each pdf-lib call settles, each continuation is run
LiveSpec == Init /\ [][Next]_vars /\ WF_vars(Next)

\* ---------------------------------- a second message handled at the same time
\* Only sendPDFDocument of the second handler touches state the two share
\* (the file at the fixed path), so only that part of it is followed.
ownVars == <<msg, pc, links, fetches, results, settleOrder, downloadResults, chat,
             pdfBuffers, tasks, mergedPdf, mergeCalls, log, uploaded>>

\* line 153-157 in the second handler
OtherWriteAndSend ==
  /\ other.pc = "deliver"
  /\ \/ /\ file' = OtherPdf
        /\ other' = [other EXCEPT !.pc = "delivering"]
     \/ /\ file' = file
        /\ other' = [other EXCEPT !.pc = "returned"]
  /\ UNCHANGED ownVars

\* line 157 in the second handler: the transport reads the file
OtherTransportReads ==
  /\ other.pc = "delivering"
  /\ other.upload.state = "none"
  /\ other' = [other EXCEPT !.upload = ReadFile(file)]
  /\ UNCHANGED <<ownVars, file>>

\* line 157-161 in the second handler
OtherSendDocumentSettles ==
  /\ other.pc = "delivering"
  /\ other.upload.state # "none"
  /\ other' = [other EXCEPT !.pc = "returned"]
  /\ \/ /\ other.upload.state = "read"
        /\ file' = NoFile
     \/ file' = file
  /\ UNCHANGED ownVars

NextTwo ==
  \/ Next
  \/ OtherWriteAndSend
  \/ OtherTransportReads
  \/ OtherSendDocumentSettles

InitTwo ==
  /\ msg \in [chatType : {"private"}, text : Texts]
  /\ Fresh
  /\ other = [pc |-> "deliver", upload |-> NotRead]

SpecTwo == InitTwo /\ [][NextTwo]_vars

TypeOK ==
  /\ pc \in {"idle", "prompt", "downloading", "fetching", "listing", "novalid",
             "merge", "merging", "deliver", "delivering", "notice", "summary",
             "done", "rejected"}
  /\ Len(fetches) = Len(results)
  /\ mergeCalls \in 0..1

\* ------------------------------------------------------------------- claims
\* every fetch of the batch has settled and downloadPDFs has returned
Joined == Len(links) > 0 /\ Len(settleOrder) = Len(links) /\ pc # "fetching"
\* mergePDFs has resolved
Merged == mergeCalls > 0 /\ \A k \in 1..Len(tasks) : tasks[k] = "added"
Positions(kind) == {k \in 1..Len(chat) : chat[k].kind = kind}
Succeeded == {i \in 1..Len(results) : results[i].status = "success"}
Failed == {i \in 1..Len(results) : results[i].status = "failed"}

RECURSIVE PagesInOrder(_)
PagesInOrder(buffers) ==
  IF buffers = <<>> THEN <<>>
  ELSE PagesOf(Head(buffers)) \o PagesInOrder(Tail(buffers))

\* C1: once mergePDFs has resolved, the pages of the merged document are the
\* pages of the source documents concatenated in the order of the buffers
\* (the link order), each source's pages in its own order, whatever the order
\* in which the load / copyPages steps completed.
C1_PagesInLinkOrder == Merged => mergedPdf = PagesInOrder(pdfBuffers)

\* C2: once downloadPDFs has returned, there are exactly as many outcomes as
\* links and the i-th outcome is the one of the i-th link's fetch (its link,
\* and its data when it succeeded), whatever the order the fetches settled in.
C2_OutcomesInLinkOrder ==
  Joined =>
    /\ Len(downloadResults) = Len(links)
    /\ \A i \in 1..Len(downloadResults) :
         /\ downloadResults[i].status \in {"success", "failed"}
         /\ downloadResults[i].link = links[i]
         /\ downloadResults[i].status = "success" => downloadResults[i].data = i

\* two different links whose fetches settled in the reverse of the link order
C2_Witness ==
  /\ Joined
  /\ Len(links) = 2
  /\ links[1] # links[2]
  /\ settleOrder = <<2, 1>>

\* C3: in every step in which a fetch settles, a transport error makes its
\* outcome 'failed', a failed outcome carries the fetch's own link and a
\* reason string, no sibling's state or outcome changes, and the batch stays
\* at the join of downloadPDFs (it does not reject).
C3_FailureIsolated ==
  [][\A i \in 1..Len(fetches) :
       (fetches[i].pc # "settled" /\ fetches'[i].pc = "settled") =>
          /\ results'[i].status \in {"success", "failed"}
          /\ fetches'[i].response.err => results'[i].status = "failed"
          /\ results'[i].status = "failed" =>
               /\ results'[i].link = links[i]
               /\ results'[i].error \in Reasons
          /\ \A j \in 1..Len(fetches) :
               j # i => fetches'[j] = fetches[j] /\ results'[j] = results[j]
          /\ pc' = "fetching"
          /\ links' = links]_vars

\* a fetch failed first and a sibling succeeded after it
C3_Witness ==
  /\ Len(settleOrder) = 2
  /\ results[settleOrder[1]].status = "failed"
  /\ results[settleOrder[2]].status = "success"

\* C4 as claimed: when handlePDFLinks has returned, the summary has been sent
\* exactly once and is the last message of the batch, in every branch.
C4_SummaryAlwaysLast ==
  (Joined /\ pc = "done") =>
    /\ Cardinality(Positions("summary")) = 1
    /\ chat[Len(chat)].kind = "summary"

\* C4 as amended: no message follows a summary; when handlePDFLinks has
\* returned and some fetch succeeded, the summary has been sent exactly once
\* and is the last message; when every fetch failed, no summary is sent and
\* the 'No valid PDFs' notice is the last message.
C4_SummaryLastIfAnySuccess ==
  /\ \A k \in Positions("summary") : k = Len(chat)
  /\ (Joined /\ pc = "done") =>
        IF Succeeded = {}
        THEN Positions("summary") = {} /\ chat[Len(chat)] = Text(NoValidText)
        ELSE Positions("summary") = {Len(chat)}

\* handlePDFLinks has returned after a failed merge: the notice, then the summary
C4_Witness ==
  /\ Joined
  /\ pc = "done"
  /\ Len(chat) >= 2
  /\ chat[Len(chat) - 1] = Text(ErrorText)
  /\ chat[Len(chat)].kind = "summary"

\* C5: when every fetch of the batch has failed, mergePDFs is not called, no
\* file is written and no document is sent, no download counts as successful,
\* and the failed-links message, once sent, lists all n links in link order;
\* handlePDFLinks returns after that message and the 'No valid PDFs' notice.
C5_AllFailedNoMerge ==
  (Joined /\ Failed = 1..Len(links)) =>
    /\ mergeCalls = 0
    /\ tasks = <<>>
    /\ file = NoFile
    /\ Positions("document") = {}
    /\ Len(successfulDownloads) = 0
    /\ pc \in {"listing", "novalid", "done", "rejected"}
    /\ pc # "listing" =>
         chat[2] = [kind |-> "failed", count |-> Len(links), links |-> links]
    /\ pc = "done" => Len(chat) = 3 /\ chat[3] = Text(NoValidText)

\* both fetches of a two-link batch failed and handlePDFLinks has returned
C5_Witness ==
  /\ Joined
  /\ Len(links) = 2
  /\ Failed = {1, 2}
  /\ pc = "done"

\* C6: once sendPDFDocument has returned, on any of its paths, the temporary
\* file does not exist (it exists only while sendDocument is pending).
C6_TempFileReleased == pc # "delivering" => file = NoFile

\* C7: a document is sent only when every merge task has appended its pages,
\* and it then holds the pages of every buffer; when a merge task has failed,
\* no document is sent and handlePDFLinks goes on to the error notice.
C7_MergeAllOrNothing ==
  /\ \A d \in Positions("document") :
       /\ \A k \in 1..Len(tasks) : tasks[k] = "added"
       /\ Len(chat[d].pages) = NumPages * Len(pdfBuffers)
       /\ \A k \in 1..Len(pdfBuffers) : \A p \in 1..NumPages :
            \E q \in 1..Len(chat[d].pages) : chat[d].pages[q] = <<pdfBuffers[k], p>>
  /\ (\E k \in 1..Len(tasks) : tasks[k] = "failed") =>
       /\ Positions("document") = {}
       /\ file = NoFile
       /\ pc \in {"merging", "notice", "summary", "done", "rejected"}
       /\ pc \in {"summary", "done"} => \E k \in 1..Len(chat) : chat[k] = Text(ErrorText)

\* one buffer was merged, the other failed, and handlePDFLinks has returned
C7_Witness ==
  /\ pc = "done"
  /\ Len(tasks) = 2
  /\ \E k \in 1..2 : tasks[k] = "added"
  /\ \E k \in 1..2 : tasks[k] = "failed"

\* the response a settled fetch judged does not declare a PDF
NotDeclaredPdf(i) ==
  IF IsDrive(links[i])
  THEN fetches[i].response.header = <<>>
       \/ ~Includes(fetches[i].response.header, <<".", "pdf">>)
  ELSE fetches[i].response.header = <<>>
       \/ ~Includes(fetches[i].response.header, <<"pdf">>)

\* C8: a settled fetch whose response has no content type, or one without
\* 'pdf' (direct), or no content disposition, or one without '.pdf' (Google
\* Drive), has a 'failed' outcome, and its body is not among the buffers
\* given to mergePDFs.
C8_NonPdfResponseFails ==
  \A i \in 1..Len(fetches) :
    (fetches[i].pc = "settled" /\ NotDeclaredPdf(i)) =>
       /\ results[i].status = "failed"
       /\ \A k \in 1..Len(pdfBuffers) : pdfBuffers[k] # i
       /\ Joined => downloadResults[i].status = "failed"

\* a direct fetch answered with text/html and a Google Drive fetch answered
\* with a disposition that has 'pdf' but not '.pdf', both with a body
C8_Witness ==
  /\ Joined
  /\ \E i \in 1..Len(fetches) :
       /\ ~IsDrive(links[i])
       /\ ~fetches[i].response.err
       /\ fetches[i].response.header = <<"text/", "html">>
  /\ \E i \in 1..Len(fetches) :
       /\ IsDrive(links[i])
       /\ ~fetches[i].response.err
       /\ fetches[i].response.header = <<"attachment; filename=", "pdf">>

\* the text has nothing but separators and white space
NoCandidates == \A k \in 1..Len(msg.text) : msg.text[k] \in {",", "\n", " "}

\* C9: for a text that has only commas, newlines and white space, no fetch is
\* issued, mergePDFs is not called, nothing but the empty-input prompt is
\* sent, and handleMessage ends having sent that prompt.
C9_EmptyInputPrompt ==
  (msg.text # <<>> /\ NoCandidates) =>
    /\ fetches = <<>>
    /\ mergeCalls = 0
    /\ \A k \in 1..Len(chat) : chat[k] = Text(PromptText)
    /\ pc \in {"idle", "prompt", "done", "rejected"}
    /\ pc \in {"done", "rejected"} => chat = <<Text(PromptText)>>

\* a text of separators and blanks was answered with the prompt
C9_Witness ==
  /\ Len(msg.text) = 3
  /\ NoCandidates
  /\ \E k \in 1..3 : msg.text[k] = " "
  /\ \E k \in 1..3 : msg.text[k] = ","
  /\ pc = "done"
  /\ chat = <<Text(PromptText)>>

\* C10: the buffers given to mergePDFs are the data of the 'success' outcomes,
\* each once, in the relative order of the outcomes, whatever the order in
\* which the fetches settled.
C10_BuffersAreSuccessesInOrder ==
  mergeCalls > 0 =>
    /\ {pdfBuffers[k] : k \in 1..Len(pdfBuffers)} = Succeeded
    /\ \A k \in 1..Len(pdfBuffers) : downloadResults[pdfBuffers[k]].data = pdfBuffers[k]
    /\ \A a, b \in 1..Len(pdfBuffers) : a < b => pdfBuffers[a] < pdfBuffers[b]

\* two successful fetches that settled in the reverse of the link order
C10_Witness ==
  /\ mergeCalls = 1
  /\ Len(pdfBuffers) = 2
  /\ settleOrder = <<2, 1>>


\* C11: at most one source buffer is in its load / copy / append section at
\* any moment: a merge task is loading or copying only when every task of an
\* earlier buffer has finished.
C11_OneSourceAtATime ==
  \A a, b \in 1..Len(tasks) :
    (a < b /\ tasks[b] \in {"load", "copy"}) => tasks[a] \in {"added", "failed"}

\* the links among the first k whose fetch failed, in link order
RECURSIVE FailedLinksUpTo(_)
FailedLinksUpTo(k) ==
  IF k = 0 THEN <<>>
  ELSE IF results[k].status = "failed"
       THEN Append(FailedLinksUpTo(k - 1), links[k])
       ELSE FailedLinksUpTo(k - 1)

\* C12: while a fetch of the batch has not settled, handlePDFLinks stands at
\* the join: nothing but 'Downloading PDFs...' has been sent, no outcome list
\* exists, no merge was called and no file written; and at the join every
\* link's fetch has issued its first request, also when none has settled yet.
C12_NothingBeforeAllSettled ==
  /\ pc = "fetching" =>
       /\ Len(fetches) = Len(links)
       /\ \A i \in 1..Len(fetches) : Len(fetches[i].requested) >= 1
  /\ (\E i \in 1..Len(results) : results[i] = Pending) =>
       /\ pc = "fetching"
       /\ chat = <<Text(DownloadingText)>>
       /\ downloadResults = <<>>
       /\ mergeCalls = 0
       /\ file = NoFile

\* one fetch of two has failed, the other is pending, and the batch waits
C12_Witness ==
  /\ pc = "fetching"
  /\ Len(links) = 2
  /\ Len(settleOrder) = 1
  /\ results[settleOrder[1]].status = "failed"
  /\ \E i \in 1..2 : results[i] = Pending


\* C13 as claimed: for every k from 0 to n, when handlePDFLinks has returned
\* the summary has reported k successes and n - k failures.
C13_SummaryForEveryBatch ==
  (Joined /\ pc = "done") =>
    \E s \in Positions("summary") :
      /\ chat[s].merged = Cardinality(Succeeded)
      /\ chat[s].failed = Len(links) - Cardinality(Succeeded)

\* C13 as amended: every summary sent reports k >= 1 successes and n - k
\* failures, k being the number of successful fetches; it is sent whenever
\* handlePDFLinks returns with k >= 1; and with exactly one success a resolved
\* merge, and the document sent, hold exactly that document's pages.
C13_SummaryCounts ==
  /\ \A s \in Positions("summary") :
       /\ chat[s].merged = Cardinality(Succeeded)
       /\ chat[s].failed = Len(links) - Cardinality(Succeeded)
       /\ chat[s].merged + chat[s].failed = Len(links)
       /\ chat[s].merged >= 1
  /\ (Joined /\ pc = "done" /\ Succeeded # {}) => Positions("summary") # {}
  /\ \A i \in Succeeded :
       (Succeeded = {i} /\ Merged) =>
          /\ mergedPdf = [p \in 1..NumPages |-> <<i, p>>]
          /\ \A d \in Positions("document") :
               chat[d].pages = [p \in 1..NumPages |-> <<i, p>>]

\* one of two fetches succeeded, its document was sent, then the summary
C13_Witness ==
  /\ pc = "done"
  /\ Len(links) = 2
  /\ Cardinality(Succeeded) = 1
  /\ Positions("document") # {}
  /\ chat[Len(chat)] = [kind |-> "summary", merged |-> 1, failed |-> 1]


\* the first "/file/d/" of the link is followed by a path segment and "/view"
ViewEnd(link) ==
  LET first == CHOOSE i \in 1..Len(link) :
                 link[i] = FileD /\ \A k \in 1..(i - 1) : link[k] # FileD
  IN  CHOOSE j \in (first + 1)..(Len(link) + 1) :
        /\ \A k \in (first + 1)..(j - 1) : link[k] = "ID"
        /\ j > Len(link) \/ link[j] # "ID"
ViewStart(link) ==
  CHOOSE i \in 1..Len(link) : link[i] = FileD /\ \A k \in 1..(i - 1) : link[k] # FileD
IsViewLink(link) ==
  /\ IsDrive(link)
  /\ \E i \in 1..Len(link) : link[i] = FileD
  /\ ViewEnd(link) > ViewStart(link) + 1
  /\ ViewEnd(link) <= Len(link)
  /\ link[ViewEnd(link)] = View
\* the link has no "/file/d/" with a "/view" after it, or is not a Drive link
IsPlainLink(link) ==
  \/ ~IsDrive(link)
  \/ ~\E i, j \in 1..Len(link) : i < j /\ link[i] = FileD /\ link[j] = View

\* C14: the first URL requested for a Drive link of the view form
\* .../file/d/<ID>/view..., whatever follows "/view", is the export URL with
\* id=<ID>, <ID> being the path segment between "/file/d/" and "/view"; the
\* URL requested for a link without the view form is the link itself.
C14_ViewLinkRewritten ==
  \A i \in 1..Len(fetches) :
    /\ IsViewLink(links[i]) =>
         fetches[i].requested[1] =
           <<ExportPrefix>> \o SubSeq(links[i], ViewStart(links[i]) + 1, ViewEnd(links[i]) - 1)
    /\ IsPlainLink(links[i]) => fetches[i].requested[1] = links[i]


\* C15: when a fetch of the batch has failed, the second message of the batch,
\* right after 'Downloading PDFs...', is the failed-links message with the
\* failed links in link order; it is sent once, before the merge is called,
\* and every notice, document and summary comes after it.
C15_FailedLinksFirst ==
  (Joined /\ Failed # {}) =>
    /\ chat[1] = Text(DownloadingText)
    /\ pc = "listing" => Len(chat) = 1
    /\ pc # "listing" => Len(chat) >= 2
    /\ Len(chat) >= 2 =>
         chat[2] = [kind |-> "failed", count |-> Cardinality(Failed),
                    links |-> FailedLinksUpTo(Len(links))]
    /\ Positions("failed") \subseteq {2}
    /\ mergeCalls > 0 => Len(chat) >= 2

\* a batch with a failed and a successful fetch: the list, then the document
C15_Witness ==
  /\ pc = "done"
  /\ Failed # {}
  /\ chat[2].kind = "failed"
  /\ chat[3].kind = "document"
  /\ chat[4].kind = "summary"

\* C16: a direct fetch makes one GET and a Google Drive fetch at most two;
\* every fetch settles at most once and mergePDFs is called at most once; once
\* a fetch has settled, failed or not, it requests nothing more and its
\* outcome does not change.
C16_NoRetry ==
  /\ [](/\ mergeCalls <= 1
        /\ \A i \in 1..Len(fetches) :
             /\ Len(fetches[i].requested) <= (IF IsDrive(links[i]) THEN 2 ELSE 1)
             /\ Len(fetches[i].requested) >= 1
             /\ Cardinality({k \in 1..Len(settleOrder) : settleOrder[k] = i}) <= 1)
  /\ [][\A i \in 1..Len(fetches) :
          fetches[i].pc = "settled" =>
            fetches'[i] = fetches[i] /\ results'[i] = results[i]]_vars

\* a failed direct fetch and a Google Drive fetch of two requests, merged
C16_Witness ==
  /\ pc = "done"
  /\ mergeCalls = 1
  /\ \E i \in Failed : ~IsDrive(links[i]) /\ Len(fetches[i].requested) = 1
  /\ \E i \in Succeeded : IsDrive(links[i]) /\ Len(fetches[i].requested) = 2


\* what the chat is told: the messages, a document by its file name only
ChatTexts ==
  [k \in 1..Len(chat) |->
     IF chat[k].kind = "document"
     THEN [kind |-> "document", filename |-> chat[k].filename]
     ELSE chat[k]]
\* the try of handlePDFLinks ended in its catch
ErrorBranch == \E k \in 1..Len(log) : log[k] = "Error merging PDFs:"
\* the messages of a batch as a function of its links, of which fetches
\* succeeded and of whether the try ended in the catch, and of nothing else
ExpectedTexts ==
  <<Text(DownloadingText)>>
  \o (IF Failed # {}
      THEN <<[kind |-> "failed", count |-> Cardinality(Failed),
              links |-> FailedLinksUpTo(Len(links))]>>
      ELSE <<>>)
  \o (IF Succeeded = {}
      THEN <<Text(NoValidText)>>
      ELSE (IF ErrorBranch
            THEN <<Text(ErrorText)>>
            ELSE <<[kind |-> "document", filename |-> "merged.pdf"]>>)
           \o <<[kind |-> "summary", merged |-> Cardinality(Succeeded),
                 failed |-> Cardinality(Failed)]>>)

\* C17: the messages sent for a batch are determined by its links, by which
\* fetches succeeded and by whether the merge-and-deliver step failed: at
\* every moment they are the first messages of that sequence, and all of it
\* when handlePDFLinks has returned. Hence two batches that differ only in
\* failure reasons, merge error details or delivery errors send the same texts.
C17_TextsIndependentOfReasons ==
  Joined =>
    /\ Len(ChatTexts) <= Len(ExpectedTexts)
    /\ ChatTexts = SubSeq(ExpectedTexts, 1, Len(ChatTexts))
    /\ pc = "done" => ChatTexts = ExpectedTexts

\* a batch with a non-PDF response for one link whose document, merged from
\* the other link, the transport refused
C17_Witness ==
  /\ pc = "done"
  /\ \E i \in Failed : results[i].error = NotPdfError
  /\ Succeeded # {}
  /\ \E k \in 1..Len(log) : log[k] = "Error sending PDF document:"


\* C18: with two messages handled at the same time, what the transport reads
\* for each sendDocument is the merged document of that call's own batch, and
\* the file is there when it reads: neither batch's write or delete changes
\* or fails the other's delivery.
C18_OwnDocumentDelivered ==
  /\ uploaded.state # "missing"
  /\ uploaded.state = "read" => uploaded.content = mergedPdf
  /\ other.upload.state # "missing"
  /\ other.upload.state = "read" => other.upload.content = OtherPdf


\* C19: a message with at least one candidate link, once its handling has
\* begun, leads to handleMessage having returned with the 'No valid PDFs'
\* notice or the summary as its last message and with every fetch settled,
\* unless a send of the transport has thrown (handleMessage then rejects).
C19_BatchTerminates ==
  (pc = "downloading") ~>
     \/ pc = "rejected"
     \/ /\ pc = "done"
        /\ \A i \in 1..Len(links) : fetches[i].pc = "settled" /\ results[i] # Pending
        /\ Len(fetches) = Len(links)
        /\ Len(chat) > 0
        /\ \/ chat[Len(chat)] = Text(NoValidText)
           \/ chat[Len(chat)].kind = "summary"

\* a batch of two links has ended with the summary, every fetch settled
C19_Witness ==
  /\ pc = "done"
  /\ Len(links) = 2
  /\ \A i \in 1..2 : fetches[i].pc = "settled"
  /\ chat[Len(chat)].kind = "summary"

====
